---- MODULE Spec2Model ----
(***************************************************************************)
(* Model of tools/coverage_merge/merge.py (FC4SC coverage merge tool).     *)
(*                                                                         *)
(* A UCIS document is modelled by the part of the element tree the merge   *)
(* reads and writes:                                                       *)
(*   root        : [tag : Seq(char), mods : Seq(instanceCoverages)]        *)
(*   instanceCoverages : [moduleName, hasCG, insts : Seq(cgInstance)]      *)
(*   cgInstance  : [name, cps : Seq(coverpoint), crosses : Seq(cross)]     *)
(*   coverpoint  : [name, bins : Seq(coverpointBin)]                       *)
(*   coverpointBin : [name, type, alias, ranges : Seq(range)]              *)
(*   range       : [from, to, coverageCount]                               *)
(*   cross       : [name, numCvps, kids : Seq(crossBin | userAttr)]        *)
(*   crossBin    : [tag, index : Seq(Nat), coverageCount]                  *)
(* hasCG tells whether the instanceCoverages element has a                 *)
(* covergroupCoverage child; numCvps is the number of crossExpr children.  *)
(* Sibling names are unique in every input document.                       *)
(***************************************************************************)
EXTENDS Integers, Sequences, FiniteSets, TLC

\* ------------------------------------------------------------------ bounds
\* number of input files handed to process_xml in one run
MaxFiles == 3

\* ------------------------------------------------------- document building
NoErr == "none"
None == <<>>

Range(f, t, c) == [from |-> f, to |-> t, coverageCount |-> c]

RECURSIVE SumCounts(_)
SumCounts(rs) ==
  IF rs = <<>> THEN 0 ELSE rs[1].coverageCount + SumCounts(Tail(rs))

\* a coverpointBin as the coverage library writes it: alias is the bin's hits
CoverpointBin(n, ty, rs) ==
  [name |-> n, type |-> ty, alias |-> SumCounts(rs), ranges |-> rs]

Coverpoint(n, bs) == [name |-> n, bins |-> bs]

CrossBin(ix, c) == [tag |-> "crossBin", index |-> ix, coverageCount |-> c]

UserAttr == [tag |-> "userAttr", index |-> <<>>, coverageCount |-> 0]

\* a further userAttr child, told from the first by its key attribute
UserAttrKey(k) == [tag |-> "userAttr", key |-> k]

Cross(n, k, ks) == [name |-> n, numCvps |-> k, kids |-> ks]

CgInstance(n, cs, xs) == [name |-> n, cps |-> cs, crosses |-> xs]

InstanceCoverages(m, is) == [moduleName |-> m, hasCG |-> TRUE, insts |-> is]

InstanceCoveragesNoCG(m) == [moduleName |-> m, hasCG |-> FALSE, insts |-> <<>>]

\* the root tag is a sequence of characters, the namespace in braces first
UCIS(ms) == [tag |-> <<"{", "n", "}", "U", "C", "I", "S">>, mods |-> ms]

\* a well-formed XML file whose root tag does not end in "UCIS"
NonUCIS ==
  [tag |-> <<"d", "b">>,
   mods |-> <<[moduleName |-> "M", hasCG |-> FALSE, insts |-> <<>>]>>]

\* ------------------------------------------------------------- the inputs
LoBins ==
  { <<CoverpointBin("lo", "default", <<Range(0, 1, 1)>>)>>,
    <<CoverpointBin("lo", "default", <<Range(0, 1, 2)>>)>>,
    <<CoverpointBin("lo", "default", <<Range(0, 2, 1)>>)>>,
    <<CoverpointBin("lo", "illegal", <<Range(0, 1, 1)>>)>>,
    <<CoverpointBin("lo", "default", <<Range(0, 1, 1), Range(2, 3, 2)>>)>>,
    <<CoverpointBin("lo", "default", <<Range(0, 1, 1), Range(0, 1, 2)>>)>>,
    <<CoverpointBin("lo", "default", <<>>)>>,
    <<CoverpointBin("hi", "default", <<Range(4, 5, 3)>>)>>,
    <<CoverpointBin("lo", "default", <<Range(0, 1, 1)>>),
      CoverpointBin("hi", "default", <<Range(4, 5, 3)>>)>> }

CrossKids ==
  { <<CrossBin(<<0, 1>>, 3), UserAttr>>,
    <<CrossBin(<<0, 1>>, 5), CrossBin(<<2, 3>>, 4), UserAttr>>,
    <<UserAttr, CrossBin(<<2, 3>>, 1)>>,
    <<CrossBin(<<0, 1>>, 3)>>,
    <<UserAttr>>,
    <<CrossBin(<<1>>, 5), CrossBin(<<1, 0>>, 2), UserAttr>>,
    <<CrossBin(<<0, 0>>, 1), CrossBin(<<1, 2, 3>>, 5), UserAttr>>,
    <<CrossBin(<<0, 1>>, 3), UserAttr, UserAttrKey("b")>> }

BaseBins == <<CoverpointBin("lo", "default", <<Range(0, 1, 1)>>)>>

BaseCross == Cross("X", 2, <<CrossBin(<<0, 1>>, 3), UserAttr>>)

OneInstance(m, i, cs, xs) ==
  UCIS(<<InstanceCoverages(m, <<CgInstance(i, cs, xs)>>)>>)

BinDocs ==
  { OneInstance("M", "i", <<Coverpoint("cpA", bs)>>, <<BaseCross>>) : bs \in LoBins }

CrossDocs ==
  { OneInstance("M", "i", <<Coverpoint("cpA", BaseBins)>>, <<Cross("X", 2, ks)>>) :
      ks \in CrossKids }

StructDocs ==
  { OneInstance("M", "i", <<Coverpoint("cpA", BaseBins)>>, <<>>),
    OneInstance("M", "i", <<Coverpoint("cpA", BaseBins)>>,
                <<BaseCross, Cross("Y", 2, <<CrossBin(<<0, 0>>, 1), UserAttr>>)>>),
    OneInstance("M", "i", <<Coverpoint("cpA", BaseBins), Coverpoint("cpB", BaseBins)>>,
                <<BaseCross>>),
    OneInstance("M", "j", <<Coverpoint("cpA", BaseBins)>>, <<BaseCross>>),
    OneInstance("N", "i", <<Coverpoint("cpA", BaseBins)>>, <<BaseCross>>),
    UCIS(<<InstanceCoverages("N", <<CgInstance("i", <<Coverpoint("cpA", BaseBins)>>, <<>>)>>),
           InstanceCoverages("M",
             <<CgInstance("j", <<Coverpoint("cpA", BaseBins)>>, <<>>),
               CgInstance("i",
                 <<Coverpoint("cpA",
                     <<CoverpointBin("mid", "default", <<Range(2, 3, 2)>>),
                       CoverpointBin("lo", "default", <<Range(0, 1, 2)>>)>>)>>,
                 <<BaseCross>>)>>)>>),
    UCIS(<<InstanceCoveragesNoCG("M")>>) }

Docs == BinDocs \cup CrossDocs \cup StructDocs \cup {NonUCIS}


\* ---------------------------------------------------------- path queries
\* One XPath query of the merge: the chain of identity keys from the root,
\* <<moduleName>>, <<moduleName, cgInstance>>, <<.., coverpoint or cross>>,
\* <<.., coverpoint, coverpointBin>>.
format_et_query(parent_query, attribValue) == Append(parent_query, attribValue)

\* document order of two nodes of the same depth, given by their child indexes
DocOrderBefore(p, r) ==
  \E k \in 1..Len(p) : p[k] < r[k] /\ \A l \in 1..(k - 1) : p[l] = r[l]

\* ElementTree.find: the first match in document order, None without a match
FirstMatch(S) ==
  IF S = {} THEN None ELSE CHOOSE p \in S : \A r \in S : p = r \/ DocOrderBefore(p, r)

\* .//instanceCoverages[@moduleName=m]/covergroupCoverage
covergroupCoverageMatches(db, q) ==
  { <<i>> : i \in { i \in DOMAIN db : db[i].moduleName = q[1] /\ db[i].hasCG } }

\* .../cgInstance[@name=n]
cgInstanceMatches(db, q) ==
  UNION { { Append(p, j) : j \in { j \in DOMAIN db[p[1]].insts :
                                     db[p[1]].insts[j].name = q[2] } } :
          p \in covergroupCoverageMatches(db, q) }

cgInstanceAt(db, p) == db[p[1]].insts[p[2]]

\* .../coverpoint[@name=c]
coverpointMatches(db, q) ==
  UNION { { Append(p, k) : k \in { k \in DOMAIN cgInstanceAt(db, p).cps :
                                     cgInstanceAt(db, p).cps[k].name = q[3] } } :
          p \in cgInstanceMatches(db, q) }

coverpointAt(db, p) == cgInstanceAt(db, p).cps[p[3]]

\* .../coverpointBin[@name=b]
coverpointBinMatches(db, q) ==
  UNION { { Append(p, b) : b \in { b \in DOMAIN coverpointAt(db, p).bins :
                                     coverpointAt(db, p).bins[b].name = q[4] } } :
          p \in coverpointMatches(db, q) }

coverpointBinAt(db, p) == coverpointAt(db, p).bins[p[4]]

\* .../range  (no predicate: every range child of the matched bins)
rangeMatches(db, q) ==
  UNION { { Append(p, r) : r \in DOMAIN coverpointBinAt(db, p).ranges } :
          p \in coverpointBinMatches(db, q) }

rangeAt(db, p) == coverpointBinAt(db, p).ranges[p[5]]

\* .../cross[@name=x]
crossMatches(db, q) ==
  UNION { { Append(p, k) : k \in { k \in DOMAIN cgInstanceAt(db, p).crosses :
                                     cgInstanceAt(db, p).crosses[k].name = q[3] } } :
          p \in cgInstanceMatches(db, q) }

crossAt(db, p) == cgInstanceAt(db, p).crosses[p[3]]

\* result of a (partial) merge: the tree and the exception raised, if any
Result(db, err) == [db |-> db, err |-> err]

\* lines 463-465: totalhits += parsedHits
AddHits(totalhits, parsedHits) == totalhits + parsedHits

\* lines 455-459: the limits of the found range against the parsed range
SameLimits(searchElement, range) ==
  LET sameFrom == searchElement.from = range.from
      sameTo == searchElement.to = range.to
  IN sameFrom /\ sameTo

\* (mutant) the new bin is put first among the bins of the coverpoint
AppendBin_Front(db, parent_query, bin) ==
  LET m == FirstMatch(coverpointMatches(db, parent_query))
  IN Result([db EXCEPT ![m[1]].insts[m[2]].cps[m[3]].bins = <<bin>> \o @], NoErr)

\* lines 438-441: a bin the merged coverpoint does not have is appended to it
AppendBin(db, parent_query, bin) ==
  LET m == FirstMatch(coverpointMatches(db, parent_query))
  IN Result([db EXCEPT ![m[1]].insts[m[2]].cps[m[3]].bins = Append(@, bin)], NoErr)

\* (mutant) a missing coverpoint is appended like a missing bin
MissingCoverpoint_Inserted(db, parent_query, coverpoint) ==
  LET m == FirstMatch(cgInstanceMatches(db, parent_query))
  IN Result([db EXCEPT ![m[1]].insts[m[2]].cps = Append(@, coverpoint)], NoErr)

\* lines 425-426: a coverpoint the merged cgInstance does not have
MissingCoverpoint(db, parent_query, coverpoint) ==
  Result(db, "ValueError: coverpoint not present")

\* lines 483-485: a cross the merged cgInstance does not have
MissingCross(db, parent_query, cross) ==
  Result(db, "ValueError: cross not present")

\* lines 408-411: a cgInstance the merged covergroup type does not have
AppendInstance(db, parent_query, cgInstance) ==
  LET m == FirstMatch(covergroupCoverageMatches(db, parent_query))
  IN Result([db EXCEPT ![m[1]].insts = Append(@, cgInstance)], NoErr)

\* lines 390-393: a covergroup type the merged tree does not have
AppendModule(db, instanceCoverages) == Result(Append(db, instanceCoverages), NoErr)

\* ---------------------------------------------------------- bin merging
\* merge_bin_hits: the loop over the ranges of the parsed bin, from range k
RECURSIVE merge_bin_hits_loop(_, _, _, _, _)
merge_bin_hits_loop(db, bin, binMergeElement, parent_query, k) ==
  IF k > Len(bin.ranges)
  THEN \* the print after the loop reads totalhits, unbound without a range
       IF Len(bin.ranges) = 0 THEN Result(db, "UnboundLocalError")
       ELSE Result(db, NoErr)
  ELSE
    LET range == bin.ranges[k]
        searchElement == FirstMatch(rangeMatches(db, parent_query))
    IN IF searchElement = None
       THEN Result(db, "ValueError: Range not found")
       ELSE
         IF ~SameLimits(rangeAt(db, searchElement), range)
            THEN Result(db, "ValueError: Range limits differ")
            ELSE
              LET totalhits == AddHits(rangeAt(db, searchElement).coverageCount,
                                       range.coverageCount)
                  b == binMergeElement
                  s == searchElement
                  db1 == [db EXCEPT
                            ![b[1]].insts[b[2]].cps[b[3]].bins[b[4]].alias = totalhits]
                  db2 == [db1 EXCEPT
                            ![s[1]].insts[s[2]].cps[s[3]].bins[s[4]].ranges[s[5]].coverageCount
                               = totalhits]
              IN merge_bin_hits_loop(db2, bin, binMergeElement, parent_query, k + 1)

merge_bin_hits(db, bin, binMergeElement, parent_query) ==
  merge_bin_hits_loop(db, bin, binMergeElement, parent_query, 1)

\* parse_coverpoint_bins: the loop over the bins of the parsed coverpoint
\* (a loop takes the result r of the iterations before k; an exception
\* raised by one of them leaves the loop)
parse_coverpoint_bins_body(db, bin, parent_query) ==
  LET xpath_query == format_et_query(parent_query, bin.name)
      binMergeElement == FirstMatch(coverpointBinMatches(db, xpath_query))
  IN IF binMergeElement # None
     THEN merge_bin_hits(db, bin, binMergeElement, xpath_query)
     ELSE AppendBin(db, parent_query, bin)

RECURSIVE parse_coverpoint_bins_loop(_, _, _, _)
parse_coverpoint_bins_loop(r, coverpoint, parent_query, k) ==
  IF r.err # NoErr \/ k > Len(coverpoint.bins) THEN r
  ELSE parse_coverpoint_bins_loop(
         parse_coverpoint_bins_body(r.db, coverpoint.bins[k], parent_query),
         coverpoint, parent_query, k + 1)

parse_coverpoint_bins(db, coverpoint, parent_query) ==
  parse_coverpoint_bins_loop(Result(db, NoErr), coverpoint, parent_query, 1)

\* parse_coverpoints: the loop over the coverpoints of the parsed cgInstance
parse_coverpoints_body(db, coverpoint, parent_query) ==
  LET xpath_query == format_et_query(parent_query, coverpoint.name)
      searchElement == FirstMatch(coverpointMatches(db, xpath_query))
  IN IF searchElement # None
     THEN parse_coverpoint_bins(db, coverpoint, xpath_query)
     ELSE MissingCoverpoint(db, parent_query, coverpoint)

RECURSIVE parse_coverpoints_loop(_, _, _, _)
parse_coverpoints_loop(r, cgInstance, parent_query, k) ==
  IF r.err # NoErr \/ k > Len(cgInstance.cps) THEN r
  ELSE parse_coverpoints_loop(
         parse_coverpoints_body(r.db, cgInstance.cps[k], parent_query),
         cgInstance, parent_query, k + 1)

parse_coverpoints(db, cgInstance, parent_query) ==
  parse_coverpoints_loop(Result(db, NoErr), cgInstance, parent_query, 1)


\* -------------------------------------------------------- cross merging
\* position of the first child with the given tag, 0 without one
find_ucis_element(kids, tag) ==
  IF \E i \in DOMAIN kids : kids[i].tag = tag
  THEN CHOOSE i \in DOMAIN kids :
         kids[i].tag = tag /\ \A j \in 1..(i - 1) : kids[j].tag # tag
  ELSE 0

\* Element.remove of the child at position i
RemoveAt(kids, i) == SubSeq(kids, 1, i - 1) \o SubSeq(kids, i + 1, Len(kids))

\* mergeMap: a dict from index tuples to hit counts, in insertion order
MapHas(mergeMap, t) == \E i \in DOMAIN mergeMap : mergeMap[i].index = t

MapGet(mergeMap, t) ==
  mergeMap[CHOOSE i \in DOMAIN mergeMap : mergeMap[i].index = t].coverageCount

MapSet(mergeMap, t, v) ==
  IF MapHas(mergeMap, t)
  THEN [i \in DOMAIN mergeMap |->
          IF mergeMap[i].index = t THEN [index |-> t, coverageCount |-> v]
          ELSE mergeMap[i]]
  ELSE Append(mergeMap, [index |-> t, coverageCount |-> v])

\* lines 501-515: store the crossBins of the merged cross and remove them
RECURSIVE DrainMergeCross(_, _, _)
DrainMergeCross(kids, numCvps, mergeMap) ==
  LET i == find_ucis_element(kids, "crossBin")
  IN IF i = 0 THEN [kids |-> kids, mergeMap |-> mergeMap, err |-> NoErr]
     ELSE IF Len(kids[i].index) # numCvps
          THEN [kids |-> kids, mergeMap |-> mergeMap,
                err |-> "ValueError: crossBin size"]
          ELSE DrainMergeCross(RemoveAt(kids, i), numCvps,
                               MapSet(mergeMap, kids[i].index, kids[i].coverageCount))

\* lines 517-529: add the crossBins of the parsed cross to the map
RECURSIVE FoldParsedCross(_, _, _)
FoldParsedCross(kids, k, mergeMap) ==
  IF k > Len(kids) THEN mergeMap
  ELSE IF kids[k].tag # "crossBin" THEN FoldParsedCross(kids, k + 1, mergeMap)
  ELSE LET tupleIndexes == kids[k].index
           hitCount == kids[k].coverageCount
       IN FoldParsedCross(kids, k + 1,
            IF MapHas(mergeMap, tupleIndexes)
            THEN MapSet(mergeMap, tupleIndexes, MapGet(mergeMap, tupleIndexes) + hitCount)
            ELSE MapSet(mergeMap, tupleIndexes, hitCount))

\* lines 531-552: the template crossBin has numCvps index elements, all 0;
\* the first Len(indexesTuple) of them are overwritten
crossBinElement(indexesTuple, numCvps, hitCount) ==
  [tag |-> "crossBin",
   index |-> [i \in 1..numCvps |->
                IF i <= Len(indexesTuple) THEN indexesTuple[i] ELSE 0],
   coverageCount |-> hitCount]

\* lines 540-558: append one new crossBin per entry of the map
RECURSIVE RebuildCrossBins(_, _, _, _)
RebuildCrossBins(kids, numCvps, mergeMap, k) ==
  IF k > Len(mergeMap) THEN [kids |-> kids, err |-> NoErr]
  ELSE IF Len(mergeMap[k].index) > numCvps
       THEN \* next() on the exhausted iterator of index elements
            [kids |-> kids, err |-> "StopIteration"]
       ELSE RebuildCrossBins(
              Append(kids, crossBinElement(mergeMap[k].index, numCvps,
                                           mergeMap[k].coverageCount)),
              numCvps, mergeMap, k + 1)

\* lines 560-563: move the user attribute element to the end of the cross
MoveUserAttr(kids) ==
  LET i == find_ucis_element(kids, "userAttr")
  IN IF i = 0 THEN [kids |-> kids, err |-> "TypeError"]
     ELSE [kids |-> Append(RemoveAt(kids, i), kids[i]), err |-> NoErr]

\* lines 492-563: the merge of one parsed cross into the merged cross
MergeCrossBins(mergeCross, cross) ==
  LET numCvps == mergeCross.numCvps
      d == DrainMergeCross(mergeCross.kids, numCvps, <<>>)
  IN IF d.err # NoErr THEN [kids |-> d.kids, err |-> d.err]
     ELSE LET mergeMap == FoldParsedCross(cross.kids, 1, d.mergeMap)
              b == RebuildCrossBins(d.kids, numCvps, mergeMap, 1)
          IN IF b.err # NoErr THEN b ELSE MoveUserAttr(b.kids)

\* the children of the merged cross are changed in place
SetCrossKids(db, m, c) ==
  Result([db EXCEPT ![m[1]].insts[m[2]].crosses[m[3]].kids = c.kids], c.err)

\* parse_crosses: the loop over the crosses of the parsed cgInstance
parse_crosses_body(db, cross, parent_query) ==
  LET xpath_query == format_et_query(parent_query, cross.name)
      mergeCrossElement == FirstMatch(crossMatches(db, xpath_query))
  IN IF mergeCrossElement = None THEN MissingCross(db, parent_query, cross)
     ELSE IF find_ucis_element(cross.kids, "crossBin") = 0
          THEN \* "Parsed cross is empty; skipping..."
               Result(db, NoErr)
          ELSE SetCrossKids(db, mergeCrossElement,
                            MergeCrossBins(crossAt(db, mergeCrossElement), cross))

RECURSIVE parse_crosses_loop(_, _, _, _)
parse_crosses_loop(r, cgInstance, parent_query, k) ==
  IF r.err # NoErr \/ k > Len(cgInstance.crosses) THEN r
  ELSE parse_crosses_loop(
         parse_crosses_body(r.db, cgInstance.crosses[k], parent_query),
         cgInstance, parent_query, k + 1)

parse_crosses(db, cgInstance, parent_query) ==
  parse_crosses_loop(Result(db, NoErr), cgInstance, parent_query, 1)

\* ------------------------------------------------- instances and modules
\* parse_covergroup_type: the loop over the cgInstances of the parsed type
\* lines 406-407: parse_crosses runs when parse_coverpoints has returned
parse_crosses_after(r, cgInstance, xpath_query) ==
  IF r.err # NoErr THEN r ELSE parse_crosses(r.db, cgInstance, xpath_query)

parse_covergroup_type_body(db, cgInstance, parent_query) ==
  LET xpath_query == format_et_query(parent_query, cgInstance.name)
      searchElement == FirstMatch(cgInstanceMatches(db, xpath_query))
  IN IF searchElement # None
     THEN parse_crosses_after(parse_coverpoints(db, cgInstance, xpath_query),
                              cgInstance, xpath_query)
     ELSE AppendInstance(db, parent_query, cgInstance)

RECURSIVE parse_covergroup_type_loop(_, _, _, _)
parse_covergroup_type_loop(r, covergroupCoverage, parent_query, k) ==
  IF r.err # NoErr \/ k > Len(covergroupCoverage) THEN r
  ELSE parse_covergroup_type_loop(
         parse_covergroup_type_body(r.db, covergroupCoverage[k], parent_query),
         covergroupCoverage, parent_query, k + 1)

parse_covergroup_type(db, covergroupCoverage, parent_query) ==
  parse_covergroup_type_loop(Result(db, NoErr), covergroupCoverage, parent_query, 1)

\* parse_xml: the loop over the instanceCoverages of the parsed root
parse_xml_body(db, instanceCoverages) ==
  LET xpath_query == format_et_query(<<>>, instanceCoverages.moduleName)
      searchElement == FirstMatch(covergroupCoverageMatches(db, xpath_query))
  IN IF searchElement # None
     THEN IF ~instanceCoverages.hasCG
          THEN \* find_ucis_element gives None, findall on it fails
               Result(db, "AttributeError")
          ELSE parse_covergroup_type(db, instanceCoverages.insts, xpath_query)
     ELSE AppendModule(db, instanceCoverages)

RECURSIVE parse_xml_loop(_, _, _)
parse_xml_loop(r, parseRoot, k) ==
  IF r.err # NoErr \/ k > Len(parseRoot) THEN r
  ELSE parse_xml_loop(parse_xml_body(r.db, parseRoot[k]), parseRoot, k + 1)

parse_xml(db, parseRoot) == parse_xml_loop(Result(db, NoErr), parseRoot, 1)


\* ------------------------------------------------------------ the program
VARIABLES
  mode,         \* "merge_to_db" (--merge_to_db given) or "directory"
  pc,           \* "loop", "done" (output written), "exit1", "aborted"
  nfiles,       \* number of files the main loop has taken so far
  mergeDBtree,  \* "None" or "ElementTree"
  mergeDBroot,  \* the children of the root element of mergeDBtree
  filelist,     \* the documents for which process_xml returned True
  skipped,      \* number of files reported as skipped
  parseRoot,    \* the document of the last process_xml call
  before,       \* mergeDBroot at the start of the last process_xml call
  last,         \* outcome of the last call: "skipped", "base", "merged", "raised"
  err,          \* the exception that ended the run, NoErr otherwise
  written,      \* the tree written by write_merged_db, <<>> before
  inputs        \* the documents of all process_xml calls so far, in order

vars == <<mode, pc, nfiles, mergeDBtree, mergeDBroot, filelist, skipped,
          parseRoot, before, last, err, written, inputs>>

Init ==
  /\ mode \in {"merge_to_db", "directory"}
  /\ pc = "loop"
  /\ nfiles = 0
  /\ mergeDBtree = "None"
  /\ mergeDBroot = <<>>
  /\ filelist = <<>>
  /\ skipped = 0
  /\ parseRoot = NonUCIS
  /\ before = <<>>
  /\ last = "none"
  /\ err = NoErr
  /\ written = <<>>
  /\ inputs = <<>>

\* lines 200-202: tagstr = parseRoot.tag[-len("UCIS"):], compared with "UCIS"
tagstr(tag) == IF Len(tag) <= 4 THEN tag ELSE SubSeq(tag, Len(tag) - 3, Len(tag))

\* (mutant) the root tag is not looked at
IsUCIS_Any(doc) == TRUE

IsUCIS(doc) == tagstr(doc.tag) = <<"U", "C", "I", "S">>

\* (mutant) the exception of parse_xml is caught and the loop goes on
Merged_Continues(r, doc) ==
  /\ mergeDBroot' = r.db
  /\ err' = r.err
  /\ pc' = pc
  /\ IF r.err = NoErr
     THEN /\ last' = "merged"
          /\ filelist' = Append(filelist, doc)
     ELSE /\ last' = "raised"
          /\ filelist' = filelist

\* lines 216-218 and 608-612: parse_xml returns and the file is listed, or
\* its exception ends the program
Merged(r, doc) ==
  /\ mergeDBroot' = r.db
  /\ err' = r.err
  /\ IF r.err = NoErr
     THEN /\ last' = "merged"
          /\ filelist' = Append(filelist, doc)
          /\ pc' = pc
     ELSE /\ last' = "raised"
          /\ filelist' = filelist
          /\ pc' = "aborted"

\* one iteration of the main loop: process_xml(filename) and what the loop
\* does with its result
process_xml(doc) ==
  /\ pc = "loop"
  /\ nfiles < MaxFiles
  /\ nfiles' = nfiles + 1
  /\ parseRoot' = doc
  /\ inputs' = Append(inputs, doc)
  /\ before' = mergeDBroot
  /\ IF ~IsUCIS(doc)
     THEN /\ last' = "skipped"
          /\ skipped' = skipped + 1
          /\ UNCHANGED <<mergeDBtree, mergeDBroot, filelist, err, pc>>
     ELSE IF mergeDBtree = "None"
     THEN /\ last' = "base"
          /\ mergeDBtree' = "ElementTree"
          /\ mergeDBroot' = doc.mods
          /\ filelist' = Append(filelist, doc)
          /\ UNCHANGED <<skipped, err, pc>>
     ELSE /\ Merged(parse_xml(mergeDBroot, doc.mods), doc)
          /\ UNCHANGED <<mergeDBtree, skipped>>
  /\ UNCHANGED <<mode, written>>

\* the end of the input files: write_merged_db
write_merged_db ==
  /\ pc = "loop"
  /\ mode = "merge_to_db" \/ filelist # <<>>
  /\ IF mergeDBtree = "None"
     THEN \* None has no write method
          /\ err' = "AttributeError"
          /\ pc' = "aborted"
          /\ written' = written
     ELSE /\ written' = <<mergeDBroot>>
          /\ pc' = "done"
          /\ err' = err
  /\ UNCHANGED <<mode, nfiles, mergeDBtree, mergeDBroot, filelist, skipped,
                 parseRoot, before, last, inputs>>

\* directory mode without any merged file: exit(1)
exit_no_files ==
  /\ pc = "loop"
  /\ mode = "directory"
  /\ filelist = <<>>
  /\ pc' = "exit1"
  /\ UNCHANGED <<mode, nfiles, mergeDBtree, mergeDBroot, filelist, skipped,
                 parseRoot, before, last, err, written, inputs>>

Next ==
  \/ \E doc \in Docs : process_xml(doc)
  \/ write_merged_db
  \/ exit_no_files

Spec == Init /\ [][Next]_vars

TypeOK ==
  /\ pc \in {"loop", "done", "exit1", "aborted"}
  /\ nfiles \in 0..MaxFiles
  /\ mergeDBtree \in {"None", "ElementTree"}
  /\ (pc = "aborted") = (err # NoErr)


\* --------------------------------------------------- reading a document
\* the nodes of a tree, each given by its child indexes from the root
InstNodes(db) ==
  UNION { { <<a, b>> : b \in DOMAIN db[a].insts } : a \in DOMAIN db }

CpNodes(db) ==
  UNION { { Append(p, c) : c \in DOMAIN cgInstanceAt(db, p).cps } : p \in InstNodes(db) }

BinNodes(db) ==
  UNION { { Append(p, d) : d \in DOMAIN coverpointAt(db, p).bins } : p \in CpNodes(db) }

RangeNodes(db) ==
  UNION { { Append(p, e) : e \in DOMAIN coverpointBinAt(db, p).ranges } : p \in BinNodes(db) }

CrossNodes(db) ==
  UNION { { Append(p, c) : c \in DOMAIN cgInstanceAt(db, p).crosses } : p \in InstNodes(db) }

CrossBinNodes(db) ==
  UNION { { Append(p, k) : k \in { k \in DOMAIN crossAt(db, p).kids :
                                     crossAt(db, p).kids[k].tag = "crossBin" } } :
          p \in CrossNodes(db) }

crossBinAt(db, p) == crossAt(db, p).kids[p[4]]

\* identity paths: the names from the root down to the node
InstKey(db, p) == <<db[p[1]].moduleName, cgInstanceAt(db, p).name>>
CpKey(db, p) == Append(InstKey(db, p), coverpointAt(db, p).name)
BinKey(db, p) == Append(CpKey(db, p), coverpointBinAt(db, p).name)
RangeKey(db, p) == Append(BinKey(db, p), p[5])
CrossKey(db, p) == Append(InstKey(db, p), crossAt(db, p).name)
CrossBinKey(db, p) == Append(CrossKey(db, p), crossBinAt(db, p).index)

\* the hit counter a document holds at an identity path, 0 without the path
RangeHits(db, key) ==
  IF \E p \in RangeNodes(db) : RangeKey(db, p) = key
  THEN rangeAt(db, CHOOSE p \in RangeNodes(db) : RangeKey(db, p) = key).coverageCount
  ELSE 0

CrossBinHits(db, key) ==
  IF \E p \in CrossBinNodes(db) : CrossBinKey(db, p) = key
  THEN crossBinAt(db, CHOOSE p \in CrossBinNodes(db) : CrossBinKey(db, p) = key).coverageCount
  ELSE 0

RECURSIVE SumRangeHits(_, _)
SumRangeHits(docs, key) ==
  IF docs = <<>> THEN 0
  ELSE RangeHits(docs[1].mods, key) + SumRangeHits(Tail(docs), key)

RECURSIVE SumCrossBinHits(_, _)
SumCrossBinHits(docs, key) ==
  IF docs = <<>> THEN 0
  ELSE CrossBinHits(docs[1].mods, key) + SumCrossBinHits(Tail(docs), key)

\* the node of a tree with a given identity path
HasBin(db, key) == \E p \in BinNodes(db) : BinKey(db, p) = key
BinOf(db, key) == coverpointBinAt(db, CHOOSE p \in BinNodes(db) : BinKey(db, p) = key)

HasCross(db, key) == \E p \in CrossNodes(db) : CrossKey(db, p) = key
CrossOf(db, key) == crossAt(db, CHOOSE p \in CrossNodes(db) : CrossKey(db, p) = key)

\* the ordered (from, to) limits of the ranges of a bin
Limits(bin) == [i \in DOMAIN bin.ranges |-> <<bin.ranges[i].from, bin.ranges[i].to>>]

\* the bins of the parsed document that the tree before the call also has
CommonBins == { key \in { BinKey(parseRoot.mods, p) : p \in BinNodes(parseRoot.mods) } :
                  HasBin(before, key) }

\* the crosses of the parsed document that the tree before the call also has
CommonCrosses == { key \in { CrossKey(parseRoot.mods, p) : p \in CrossNodes(parseRoot.mods) } :
                     HasCross(before, key) }

\* the crossBin children of a cross, their index tuples and their hits
CrossBinsOf(cross) == { k \in DOMAIN cross.kids : cross.kids[k].tag = "crossBin" }
Tuples(cross) == { cross.kids[k].index : k \in CrossBinsOf(cross) }
TupleHits(cross, t) ==
  IF t \in Tuples(cross)
  THEN cross.kids[CHOOSE k \in CrossBinsOf(cross) : cross.kids[k].index = t].coverageCount
  ELSE 0

HasInst(db, key) == \E p \in InstNodes(db) : InstKey(db, p) = key
InstOf(db, key) == cgInstanceAt(db, CHOOSE p \in InstNodes(db) : InstKey(db, p) = key)

HasCp(db, key) == \E p \in CpNodes(db) : CpKey(db, p) = key
CpOf(db, key) == coverpointAt(db, CHOOSE p \in CpNodes(db) : CpKey(db, p) = key)

\* the names of a sequence of named nodes
Names(nodes) == { nodes[i].name : i \in DOMAIN nodes }
ModuleNames(db) == { db[i].moduleName : i \in DOMAIN db }

\* the nodes of a sequence whose name is not in a set, in their order
RECURSIVE NotNamed(_, _)
NotNamed(nodes, names) ==
  IF nodes = <<>> THEN <<>>
  ELSE IF nodes[1].name \in names THEN NotNamed(Tail(nodes), names)
  ELSE <<nodes[1]>> \o NotNamed(Tail(nodes), names)

RECURSIVE ModulesNotNamed(_, _)
ModulesNotNamed(db, names) ==
  IF db = <<>> THEN <<>>
  ELSE IF db[1].moduleName \in names THEN ModulesNotNamed(Tail(db), names)
  ELSE <<db[1]>> \o ModulesNotNamed(Tail(db), names)

\* the module of a tree with a covergroupCoverage and a given type name
CGModuleOf(db, m) == db[CHOOSE i \in DOMAIN db : db[i].moduleName = m /\ db[i].hasCG]

\* the children of a parent after Len(old) children
Appended(new, old) == SubSeq(new, Len(old) + 1, Len(new))

\* the hits of a bin: the total over its ranges, 0 for a bin the tree lacks
BinTotal(db, key) == IF HasBin(db, key) THEN SumCounts(BinOf(db, key).ranges) ELSE 0

\* a root tag that ends in U, C, I, S
Recognized(doc) ==
  LET t == doc.tag
      n == Len(doc.tag)
  IN n >= 4 /\ t[n - 3] = "U" /\ t[n - 2] = "C" /\ t[n - 1] = "I" /\ t[n] = "S"

\* the accumulator of a sequence of recognized documents: the first is the
\* base, each later one is merged into it
RECURSIVE FoldDocs(_, _)
FoldDocs(db, docs) ==
  IF docs = <<>> THEN db ELSE FoldDocs(parse_xml(db, docs[1].mods).db, Tail(docs))

Accumulator(docs) == IF docs = <<>> THEN <<>> ELSE FoldDocs(docs[1].mods, Tail(docs))

\* the exceptions raised in parse_crosses
CrossStageErrors ==
  {"ValueError: cross not present", "ValueError: crossBin size", "StopIteration", "TypeError"}

\* the last process_xml call merged parseRoot into the tree `before`
MergeCalled == last \in {"merged", "raised"}

\* ------------------------------------------------------------------ claims
\* C1: after any sequence of documents processed without error, every range
\* and every crossBin of the accumulator holds the sum of the hit counters
\* the processed documents hold at the same identity path.
C1_HitsAreSumsOfInputs ==
  (err = NoErr /\ mergeDBtree # "None") =>
    /\ \A p \in RangeNodes(mergeDBroot) :
         rangeAt(mergeDBroot, p).coverageCount
           = SumRangeHits(filelist, RangeKey(mergeDBroot, p))
    /\ \A p \in CrossBinNodes(mergeDBroot) :
         crossBinAt(mergeDBroot, p).coverageCount
           = SumCrossBinHits(filelist, CrossBinKey(mergeDBroot, p))


\* C2: when a parsed bin is merged into the bin of the same path and both
\* have the same ordered range limits, each range of the merged bin holds
\* its count before the merge plus the count of the parsed range at the same
\* position (and the merge of such bins raises no range error).
C2_SameShapeRangesAdd ==
  /\ last = "merged" =>
       \A key \in CommonBins :
         Limits(BinOf(before, key)) = Limits(BinOf(parseRoot.mods, key)) =>
           \A i \in DOMAIN BinOf(before, key).ranges :
             BinOf(mergeDBroot, key).ranges[i].coverageCount
               = BinOf(before, key).ranges[i].coverageCount
                 + BinOf(parseRoot.mods, key).ranges[i].coverageCount
  /\ ( /\ MergeCalled
       /\ \A key \in CommonBins :
            Limits(BinOf(before, key)) = Limits(BinOf(parseRoot.mods, key)) )
     => err \notin {"ValueError: Range limits differ", "ValueError: Range not found"}


\* C3: after the merge of a parsed cross with at least one crossBin, the
\* merged cross holds exactly one crossBin per index tuple of (its tuples
\* before) union (the parsed tuples), each with the sum of the two counts.
C3_CrossBinsAreUnionWithSums ==
  last = "merged" =>
    \A key \in CommonCrosses :
      LET a == CrossOf(before, key)
          c == CrossOf(parseRoot.mods, key)
          m == CrossOf(mergeDBroot, key)
      IN CrossBinsOf(c) # {} =>
           /\ Tuples(m) = Tuples(a) \cup Tuples(c)
           /\ \A t \in Tuples(m) :
                /\ Cardinality({ k \in CrossBinsOf(m) : m.kids[k].index = t }) = 1
                /\ TupleHits(m, t) = TupleHits(a, t) + TupleHits(c, t)

\* C4: the merge of a parsed bin into the bin of the same path raises when
\* the two differ in their ordered range limits or in their kind, and no
\* range is ever inserted into an existing bin.
C4_ShapeMismatchRaises ==
  /\ last = "merged" =>
       \A key \in CommonBins :
         /\ Limits(BinOf(before, key)) = Limits(BinOf(parseRoot.mods, key))
         /\ BinOf(before, key).type = BinOf(parseRoot.mods, key).type
  /\ MergeCalled =>
       \A p \in BinNodes(before) :
         Len(BinOf(mergeDBroot, BinKey(before, p)).ranges)
           = Len(coverpointBinAt(before, p).ranges)

\* C6: a crossBin tuple of the parsed or of the merged cross whose length is
\* not the number of crossed coverpoints makes the merge fail, and no
\* crossBin padded or truncated from such a tuple is written.
C6_TupleLengthMismatchRaises ==
  MergeCalled =>
    \A key \in CommonCrosses :
      LET a == CrossOf(before, key)
          c == CrossOf(parseRoot.mods, key)
          m == CrossOf(mergeDBroot, key)
      IN CrossBinsOf(c) # {} =>
           /\ (\E t \in Tuples(a) \cup Tuples(c) : Len(t) # a.numCvps) => err # NoErr
           /\ Tuples(m) \subseteq Tuples(a) \cup Tuples(c)

\* C10: after the merge of a parsed bin into the bin of the same path, the
\* alias of the merged bin is the bin's hit count: the total of the
\* coverageCount of its ranges.
C10_AliasIsBinHitCount ==
  last = "merged" =>
    \A key \in CommonBins :
      BinOf(mergeDBroot, key).alias = SumCounts(BinOf(mergeDBroot, key).ranges)


\* C5: when a parsed cgInstance matches a cgInstance of the tree and holds a
\* coverpoint or a cross whose name the matched cgInstance does not have,
\* the merge raises and the coverpoint or cross is not inserted.
C5_MissingCoverpointOrCrossRaises ==
  MergeCalled =>
    \A p \in InstNodes(parseRoot.mods) :
      LET key == InstKey(parseRoot.mods, p)
          c == cgInstanceAt(parseRoot.mods, p)
      IN HasInst(before, key) =>
           /\ \A n \in Names(c.cps) \ Names(InstOf(before, key).cps) :
                err # NoErr /\ n \notin Names(InstOf(mergeDBroot, key).cps)
           /\ \A n \in Names(c.crosses) \ Names(InstOf(before, key).crosses) :
                err # NoErr /\ n \notin Names(InstOf(mergeDBroot, key).crosses)

\* C5 witness: a merge ended by the cross (coverpoint) that is not present
C5_Witness ==
  /\ last = "raised"
  /\ err = "ValueError: cross not present"
  /\ \E p \in InstNodes(parseRoot.mods) :
       /\ HasInst(before, InstKey(parseRoot.mods, p))
       /\ Names(cgInstanceAt(parseRoot.mods, p).crosses)
            \ Names(InstOf(before, InstKey(parseRoot.mods, p)).crosses) # {}

\* C7: a parsed module, cgInstance or bin whose name the matched parent of
\* the tree does not have is appended, whole and unchanged, after the
\* children the parent already had (in the order of the parsed document);
\* the children of that parent that the parsed document does not name stay
\* as they were.
C7_NewNodesAppendedVerbatim ==
  last = "merged" =>
    /\ ModulesNotNamed(Appended(mergeDBroot, before), ModuleNames(before))
         = ModulesNotNamed(parseRoot.mods, ModuleNames(before))
    /\ \A i \in DOMAIN before :
         before[i].moduleName \notin ModuleNames(parseRoot.mods) =>
           mergeDBroot[i] = before[i]
    /\ \A i \in DOMAIN parseRoot.mods :
         LET c == parseRoot.mods[i]
             m == c.moduleName
         IN (c.hasCG /\ \E j \in DOMAIN before : before[j].moduleName = m /\ before[j].hasCG) =>
              LET old == CGModuleOf(before, m).insts
                  new == CGModuleOf(mergeDBroot, m).insts
              IN /\ Appended(new, old) = NotNamed(c.insts, Names(old))
                 /\ \A k \in DOMAIN old :
                      old[k].name \notin Names(c.insts) => new[k] = old[k]
    /\ \A p \in CpNodes(parseRoot.mods) :
         LET key == CpKey(parseRoot.mods, p)
             c == coverpointAt(parseRoot.mods, p)
         IN HasCp(before, key) =>
              LET old == CpOf(before, key).bins
                  new == CpOf(mergeDBroot, key).bins
              IN /\ Appended(new, old) = NotNamed(c.bins, Names(old))
                 /\ \A k \in DOMAIN old :
                      old[k].name \notin Names(c.bins) => new[k] = old[k]

\* C7 witness: one merge that appended a new module, a new cgInstance of a
\* matched module and a new bin of a matched coverpoint
C7_Witness ==
  /\ last = "merged"
  /\ ModulesNotNamed(parseRoot.mods, ModuleNames(before)) # <<>>
  /\ \E p \in InstNodes(parseRoot.mods) :
       /\ parseRoot.mods[p[1]].moduleName \in ModuleNames(before)
       /\ ~HasInst(before, InstKey(parseRoot.mods, p))
  /\ \E p \in BinNodes(parseRoot.mods) :
       /\ HasCp(before, CpKey(parseRoot.mods, p))
       /\ ~HasBin(before, BinKey(parseRoot.mods, p))
       /\ Len(CpOf(before, CpKey(parseRoot.mods, p)).bins) > 0


\* C8: a document whose root tag is not recognized is reported as skipped
\* and leaves the accumulator as it was (unset when no recognized document
\* came before), and the run goes on: the accumulator is always the one of
\* the recognized documents alone.
C8_SkippedDocumentsLeaveNoTrace ==
  /\ [][(nfiles' = nfiles + 1 /\ ~Recognized(parseRoot')) =>
          /\ last' = "skipped" /\ skipped' = skipped + 1
          /\ mergeDBroot' = mergeDBroot /\ mergeDBtree' = mergeDBtree
          /\ pc' = "loop" /\ err' = NoErr]_vars
  /\ [](/\ skipped = Len(inputs) - Len(SelectSeq(inputs, Recognized))
        /\ (mergeDBtree = "None") = (SelectSeq(inputs, Recognized) = <<>>)
        /\ mergeDBroot = Accumulator(SelectSeq(inputs, Recognized))
        /\ last \in {"base", "merged"} => filelist = SelectSeq(inputs, Recognized))

\* C8 witness: the first file was skipped, the second became the base and
\* the third was merged into it
C8_Witness ==
  /\ nfiles = 3
  /\ ~Recognized(inputs[1])
  /\ Recognized(inputs[2])
  /\ last = "merged"
  /\ mergeDBroot # before

\* C9: once a merge has raised, no later file is processed and nothing is
\* written; what the failed merge and the merges before it had already
\* added to the accumulator stays: no range of the tree before the call is
\* lost or lowered, and when the exception comes from parse_crosses of the
\* only cgInstance of the document, the hits of all its bins are in.
C9_ErrorEndsRunWithoutRollback ==
  /\ [][err # NoErr => UNCHANGED vars]_vars
  /\ [](err # NoErr => written = <<>> /\ pc = "aborted")
  /\ [](last = "raised" =>
          /\ inputs[Len(inputs)] = parseRoot
          /\ \A p \in RangeNodes(before) :
               RangeHits(mergeDBroot, RangeKey(before, p))
                 >= rangeAt(before, p).coverageCount
          /\ (err \in CrossStageErrors /\ Cardinality(InstNodes(parseRoot.mods)) = 1) =>
               \A p \in BinNodes(parseRoot.mods) :
                 BinTotal(mergeDBroot, BinKey(parseRoot.mods, p))
                   = BinTotal(before, BinKey(parseRoot.mods, p))
                     + BinTotal(parseRoot.mods, BinKey(parseRoot.mods, p)))

\* C9 witness: the third file raised in parse_crosses after its bins had
\* been added to an accumulator built from two documents
C9_Witness ==
  /\ last = "raised"
  /\ pc = "aborted"
  /\ err \in CrossStageErrors
  /\ Len(filelist) = 2
  /\ mergeDBroot # before
  /\ \E p \in BinNodes(parseRoot.mods) :
       /\ BinTotal(parseRoot.mods, BinKey(parseRoot.mods, p)) > 0
       /\ BinTotal(mergeDBroot, BinKey(parseRoot.mods, p))
            > BinTotal(before, BinKey(parseRoot.mods, p))


\* ------------------------------------------------- claims on whole runs
\* the identity paths of the bins and of the crossBins of a tree
BinKeys(db) == { BinKey(db, p) : p \in BinNodes(db) }
CrossBinKeys(db) == { CrossBinKey(db, p) : p \in CrossBinNodes(db) }

\* the run has taken exactly two recognized documents, the first as the
\* base, and has merged the second into it without an exception
TwoMerged == Len(inputs) = 2 /\ last = "merged"

\* the same two documents taken in the other order
OtherOrder == parse_xml(inputs[2].mods, inputs[1].mods)

\* C11: when two recognized documents are processed in the order [A, B] and
\* in the order [B, A], both without an exception, every bin and every
\* crossBin (by identity path) has the same hit count in both results.
C11_OrderIndependent ==
  (TwoMerged /\ OtherOrder.err = NoErr) =>
    /\ \A key \in BinKeys(mergeDBroot) \cup BinKeys(OtherOrder.db) :
         BinTotal(mergeDBroot, key) = BinTotal(OtherOrder.db, key)
    /\ \A key \in CrossBinKeys(mergeDBroot) \cup CrossBinKeys(OtherOrder.db) :
         CrossBinHits(mergeDBroot, key) = CrossBinHits(OtherOrder.db, key)

\* the run has taken the same recognized document twice: as the base, then
\* merged into itself
SameTwice == Len(inputs) = 2 /\ inputs[1] = inputs[2] /\ MergeCalled

\* C12: a document D taken as the base and then merged into it completes
\* without an exception; every range and every crossBin then holds twice
\* its hits in D, and no bin, range or crossBin is added or removed.
C12_SameDocumentTwiceDoubles ==
  SameTwice =>
    /\ err = NoErr
    /\ BinNodes(mergeDBroot) = BinNodes(before)
    /\ RangeNodes(mergeDBroot) = RangeNodes(before)
    /\ \A p \in RangeNodes(before) :
         rangeAt(mergeDBroot, p).coverageCount = 2 * rangeAt(before, p).coverageCount
    /\ Cardinality(CrossBinNodes(mergeDBroot)) = Cardinality(CrossBinNodes(before))
    /\ CrossBinKeys(mergeDBroot) = CrossBinKeys(before)
    /\ \A key \in CrossBinKeys(before) :
         CrossBinHits(mergeDBroot, key) = 2 * CrossBinHits(before, key)

\* the hit counts of the crossBins of a cross with the index tuple t, in
\* the order of the children
CountsAt(cross, t) ==
  LET IsT(k) == k.tag = "crossBin" /\ k.index = t
      hit == SelectSeq(cross.kids, IsT)
  IN [i \in DOMAIN hit |-> hit[i].coverageCount]

\* C13: a merge adds the hits of a parsed bin to the bin of the tree with
\* the same identity path and to no other: every bin of the tree holds its
\* hits before the merge plus those of the parsed bin of its own path (none
\* when the parsed document lacks the path), and the crossBins of the tree
\* whose path the parsed document lacks keep their hit counts.
C13_HitsStayOnTheirPath ==
  last = "merged" =>
    /\ \A key \in BinKeys(before) :
         BinTotal(mergeDBroot, key)
           = BinTotal(before, key) + BinTotal(parseRoot.mods, key)
    /\ \A p \in CrossBinNodes(before) :
         LET key == CrossBinKey(before, p)
             ck == CrossKey(before, p)
         IN key \notin CrossBinKeys(parseRoot.mods) =>
              CountsAt(CrossOf(mergeDBroot, ck), crossBinAt(before, p).index)
                = CountsAt(crossAt(before, p), crossBinAt(before, p).index)

\* the index tuples of the crossBin children of a cross, in their order
TupleSeq(cross) ==
  LET IsBin(k) == k.tag = "crossBin"
      bins == SelectSeq(cross.kids, IsBin)
  IN [i \in DOMAIN bins |-> bins[i].index]

\* a sequence without the later occurrences of its elements
RECURSIVE Distinct(_)
Distinct(seq) ==
  IF seq = <<>> THEN <<>>
  ELSE LET front == Distinct(SubSeq(seq, 1, Len(seq) - 1))
           x == seq[Len(seq)]
       IN IF \E i \in DOMAIN front : front[i] = x THEN front ELSE Append(front, x)

\* the positions of the userAttr and of the crossBin children of a cross
UserAttrsOf(cross) == { k \in DOMAIN cross.kids : cross.kids[k].tag = "userAttr" }

\* C14: after the merge of a parsed cross with at least one crossBin, every
\* userAttr child the cross had is still a child of it, unchanged and once,
\* and sits after all crossBin children; the crossBins are in the order of
\* the tuples the cross had, then the new tuples in the order of the parsed
\* cross.
C14_UserAttrLastAndBinOrder ==
  last = "merged" =>
    \A key \in CommonCrosses :
      LET a == CrossOf(before, key)
          c == CrossOf(parseRoot.mods, key)
          m == CrossOf(mergeDBroot, key)
      IN CrossBinsOf(c) # {} =>
           /\ \A u \in UserAttrsOf(a) :
                /\ Cardinality({ k \in UserAttrsOf(m) : m.kids[k] = a.kids[u] }) = 1
                /\ \A k \in UserAttrsOf(m) :
                     m.kids[k] = a.kids[u] => \A b \in CrossBinsOf(m) : b < k
           /\ TupleSeq(m) = Distinct(TupleSeq(a) \o TupleSeq(c))

\* no element of the sequence occurs twice
NoRepeat(seq) == \A i, j \in DOMAIN seq : i # j => seq[i] # seq[j]

NameSeq(nodes) == [i \in DOMAIN nodes |-> nodes[i].name]

\* sibling modules, cgInstances, coverpoints, bins and crosses have
\* different names, the crossBins of a cross different index tuples
UniqueModules(db) == NoRepeat([i \in DOMAIN db |-> db[i].moduleName])

UniqueCrossBins(db) == \A p \in CrossNodes(db) : NoRepeat(TupleSeq(crossAt(db, p)))

UniqueSiblings(db) ==
  /\ UniqueModules(db)
  /\ \A a \in DOMAIN db : NoRepeat(NameSeq(db[a].insts))
  /\ \A p \in InstNodes(db) :
       /\ NoRepeat(NameSeq(cgInstanceAt(db, p).cps))
       /\ NoRepeat(NameSeq(cgInstanceAt(db, p).crosses))
  /\ \A p \in CpNodes(db) : NoRepeat(NameSeq(coverpointAt(db, p).bins))
  /\ UniqueCrossBins(db)

\* C15: when every processed document has unique sibling names and unique
\* crossBin tuples, the tree has them too after any sequence of merges that
\* raised no exception.
C15_UniquenessPreserved ==
  ( /\ err = NoErr
    /\ mergeDBtree # "None"
    /\ \A i \in DOMAIN filelist : UniqueSiblings(filelist[i].mods) )
  => UniqueSiblings(mergeDBroot)

\* the structural mismatches between the tree before the call and the
\* parsed document: a coverpoint or cross the matched cgInstance lacks, a
\* matched bin with other range limits, another number of ranges or another
\* type, a crossBin tuple of a matched cross that has not numCvps indexes
MismatchMissing ==
  \E p \in InstNodes(parseRoot.mods) :
    LET key == InstKey(parseRoot.mods, p)
        c == cgInstanceAt(parseRoot.mods, p)
    IN /\ HasInst(before, key)
       /\ \/ Names(c.cps) \ Names(InstOf(before, key).cps) # {}
          \/ Names(c.crosses) \ Names(InstOf(before, key).crosses) # {}

MismatchBin ==
  \E key \in CommonBins :
    \/ Limits(BinOf(before, key)) # Limits(BinOf(parseRoot.mods, key))
    \/ BinOf(before, key).type # BinOf(parseRoot.mods, key).type

MismatchTuple ==
  \E key \in CommonCrosses :
    \E t \in Tuples(CrossOf(before, key)) \cup Tuples(CrossOf(parseRoot.mods, key)) :
      Len(t) # CrossOf(before, key).numCvps

\* C16: a merge raises only on a structural mismatch: without a missing
\* coverpoint or cross, a bin of other shape or type and a crossBin tuple of
\* wrong length, the merge of the parsed document completes.
C16_RaisesOnlyOnMismatch ==
  (MergeCalled /\ ~MismatchMissing /\ ~MismatchBin /\ ~MismatchTuple) => err = NoErr

====
